---- MODULE Spec2Model ----
(***************************************************************************)
(* State-machine model of src/sol_swap.py: the interactive CLI loop, the   *)
(* buy and sell operations, the transaction submitter with its fallback    *)
(* and the confirmation poller.                                            *)
(*                                                                         *)
(* Every HTTP call is a step whose response is chosen from a finite set    *)
(* of response shapes (transport error, status, JSON validity, fields      *)
(* present).  Python exceptions are modelled by the variable exc and a     *)
(* jump to the enclosing except clause.                                    *)
(*                                                                         *)
(* Decimal amounts (Python floats) are modelled as fixed-point numbers     *)
(* counted in units of 1/Scale.  Parsing, the division by 10^d and the     *)
(* comparisons are exact on that grid (a correctly rounded quotient is the *)
(* double nearest to the decimal); the product amount * 10^d followed by   *)
(* int() is not, see ToSmallestUnit.  Scalings by 10^d are computed on the *)
(* unit (10^d / Scale), d >= 3.                                            *)
(***************************************************************************)
EXTENDS Integers, Sequences, FiniteSets, TLC

VARIABLES
    pc,               \* control location
    private_key,      \* main: the key read once at start-up
    choice,           \* main: last menu choice
    tx_sig,           \* main: what the last operation returned
    op,               \* which operation is running: "none", "buy", "sell"
    amount,           \* the operation's amount argument (fixed point)
    requested,        \* the amount as passed by main (before sell resolves it)
    sol_balance,      \* result of get_sol_balance
    balance_reply,    \* what the network answered to getBalance
    token_account,    \* sell: pubkey of the discovered token account
    token_decimals,   \* sell: decimals of the discovered token account
    current_balance,  \* sell: discovered token balance (fixed point)
    quote_response,   \* result of get_quote
    swap_response,    \* response of the swap-build POST
    encoded_tx,       \* the signed, encoded transaction
    send_response,    \* send_transaction: response of the primary relay
    tx_signature,     \* result of send_transaction
    max_retries,      \* poller: its max_retries argument
    polls,            \* poller: completed iterations of the for loop
    lastPoll,         \* poller: response of the latest status query
    confirmed,        \* poller: its return value ("unset", "True", "False")
    exc,              \* the exception being propagated ("none" if none)
    ret,              \* return value of buy_tokens / sell_tokens
    requests,         \* network layer: requests issued by the current operation
    stageLog,         \* stages entered by the current operation, in order
    warned            \* sell: the post-trade check printed its warning

vars == <<pc, private_key, choice, tx_sig, op, amount, requested, sol_balance,
          balance_reply,
          token_account, token_decimals, current_balance, quote_response,
          swap_response, encoded_tx, send_response, tx_signature, max_retries,
          polls,
          lastPoll, confirmed, exc, ret, requests, stageLog, warned>>

-----------------------------------------------------------------------------
(* Bounds of the model *)

\* largest amount the user types, in fixed-point units
MaxAmount == 2
\* largest native balance the RPC reports, in fixed-point units
MaxBalance == 2
\* largest token balance the RPC reports, in fixed-point units
MaxTokens == 1

(* Program constants *)

\* a fixed-point unit is 1/Scale of a whole coin
Scale == 10 ^ 3
LAMPORTS_PER_SOL == 10 ^ 9
\* 0.002, the minimum native balance for fees, in fixed-point units
MIN_FEE_BALANCE == (2 * Scale) \div 1000
DEFAULT_MAX_RETRIES == 30
HELIUS_URL == "https://mainnet.helius-rpc.com"
SOL_ADDRESS == "So11111111111111111111111111111111111111112"
JUP_QUOTE_URL == "https://quote-api.jup.ag/v6/quote"
JUP_SWAP_URL == "https://quote-api.jup.ag/v6/swap"
JUP_SEND_URL == "https://worker.jup.ag/send-transaction"

\* the token the user trades and the wallet's identity
ContractAddress == "TokenMint"
PublicKey == "WalletPubkey"

None == "None"
Pow10(n) == 10 ^ n

-----------------------------------------------------------------------------
(* Transactions.  Bytes are sequences of named fields.  A versioned (v0)   *)
(* message is serialized on the wire, and inside a transaction, with a     *)
(* leading version byte; bytes(message) of the solders binding serializes  *)
(* the message alone, without that byte (to_bytes_versioned adds it).      *)

VERSION_PREFIX == "0x80"

LegacyMessage ==
    [version |-> "legacy",
     body |-> <<"header", "account_keys", "blockhash", "instructions">>]
V0Message ==
    [version |-> "v0",
     body |-> <<"header", "account_keys", "blockhash", "instructions",
                "address_table_lookups">>]

\* the message as it stands inside a serialized transaction
SerializeMessage(m) ==
    IF m.version = "v0" THEN <<VERSION_PREFIX>> \o m.body ELSE m.body
DeserializeMessage(bytes) ==
    IF bytes # <<>> /\ Head(bytes) = VERSION_PREFIX
    THEN [version |-> "v0", body |-> Tail(bytes)]
    ELSE [version |-> "legacy", body |-> bytes]

\* bytes(unsigned_tx.message)
MessageBytes(m) == m.body

\* Keypair.sign_message and VersionedTransaction.populate
SignMessage(key, message) == [signer |-> key, over |-> message]
Populate(message, signatures) == [message |-> message, signatures |-> signatures]

\* bytes(tx) and VersionedTransaction.from_bytes
TransactionBytes(tx) ==
    [signatures |-> tx.signatures, message_bytes |-> SerializeMessage(tx.message)]
TransactionFromBytes(bytes) ==
    [signatures |-> bytes.signatures,
     message |-> DeserializeMessage(bytes.message_bytes)]

B64Encode(tx) == [b64 |-> tx]
B64Decode(text) == text.b64

\* the unsigned transaction the aggregator builds: one placeholder signature
PlaceholderSignature == [signer |-> None, over |-> <<>>]
UnsignedBlob(m) ==
    B64Encode(TransactionBytes(Populate(m, <<PlaceholderSignature>>)))
NoBlob == B64Encode([signatures |-> <<>>, message_bytes |-> <<>>])

-----------------------------------------------------------------------------
(* Inputs: what the user types *)

Choices == {"1", "2", "3", "x"}
PrivateKeys == {"validkey", "badkey"}

\* text typed at the amount prompt: a number, nothing, or not a number
AmountInputs ==
    {[kind |-> "num", val |-> v] : v \in (-1)..MaxAmount}
    \cup {[kind |-> "empty", val |-> 0], [kind |-> "text", val |-> 0]}

(* Inputs: what the network answers *)

BalanceResponses ==
    {[transport |-> "error", status |-> 0, json |-> "invalid", has_result |-> FALSE, has_value |-> FALSE, value |-> 0],
     [transport |-> "ok", status |-> 500, json |-> "ok", has_result |-> FALSE, has_value |-> FALSE, value |-> 0],
     [transport |-> "ok", status |-> 200, json |-> "invalid", has_result |-> FALSE, has_value |-> FALSE, value |-> 0],
     [transport |-> "ok", status |-> 200, json |-> "ok", has_result |-> FALSE, has_value |-> FALSE, value |-> 0],
     [transport |-> "ok", status |-> 200, json |-> "ok", has_result |-> TRUE, has_value |-> FALSE, value |-> 0]}
    \cup {[transport |-> "ok", status |-> 200, json |-> "ok", has_result |-> TRUE, has_value |-> TRUE,
           value |-> b * (LAMPORTS_PER_SOL \div Scale)] : b \in 0..MaxBalance}

PollResponses ==
    {[transport |-> "error", status |-> 0, json |-> "invalid", result |-> "null", meta |-> "absent", err |-> None],
     [transport |-> "ok", status |-> 500, json |-> "ok", result |-> "null", meta |-> "absent", err |-> None],
     [transport |-> "ok", status |-> 200, json |-> "invalid", result |-> "null", meta |-> "absent", err |-> None],
     [transport |-> "ok", status |-> 200, json |-> "ok", result |-> "null", meta |-> "absent", err |-> None],
     [transport |-> "ok", status |-> 200, json |-> "ok", result |-> "present", meta |-> "null", err |-> None],
     [transport |-> "ok", status |-> 200, json |-> "ok", result |-> "present", meta |-> "present", err |-> None],
     [transport |-> "ok", status |-> 200, json |-> "ok", result |-> "present", meta |-> "present", err |-> "InstructionError"]}

QuoteResponses ==
    {[transport |-> "error", status |-> 0, json |-> "invalid", quote |-> None],
     [transport |-> "ok", status |-> 500, json |-> "ok", quote |-> None],
     [transport |-> "ok", status |-> 200, json |-> "invalid", quote |-> None],
     [transport |-> "ok", status |-> 200, json |-> "ok", quote |-> "route1"]}

SwapResponses ==
    {[transport |-> "error", status |-> 0, json |-> "invalid", has_tx |-> FALSE, blob |-> "none", swapTransaction |-> NoBlob],
     [transport |-> "ok", status |-> 500, json |-> "ok", has_tx |-> FALSE, blob |-> "none", swapTransaction |-> NoBlob],
     [transport |-> "ok", status |-> 200, json |-> "invalid", has_tx |-> FALSE, blob |-> "none", swapTransaction |-> NoBlob],
     [transport |-> "ok", status |-> 200, json |-> "ok", has_tx |-> FALSE, blob |-> "none", swapTransaction |-> NoBlob],
     [transport |-> "ok", status |-> 200, json |-> "ok", has_tx |-> TRUE, blob |-> "garbage", swapTransaction |-> NoBlob]}
    \cup {[transport |-> "ok", status |-> 200, json |-> "ok", has_tx |-> TRUE, blob |-> "valid",
           swapTransaction |-> UnsignedBlob(m)] : m \in {LegacyMessage, V0Message}}

SendResponses ==
    {[transport |-> "error", status |-> 0, json |-> "invalid", has_txid |-> FALSE, txid |-> None],
     [transport |-> "ok", status |-> 500, json |-> "ok", has_txid |-> FALSE, txid |-> None],
     [transport |-> "ok", status |-> 200, json |-> "invalid", has_txid |-> FALSE, txid |-> None],
     [transport |-> "ok", status |-> 200, json |-> "ok", has_txid |-> FALSE, txid |-> None],
     [transport |-> "ok", status |-> 200, json |-> "ok", has_txid |-> TRUE, txid |-> "sigJup"]}

FallbackResponses ==
    {[transport |-> "error", status |-> 0, json |-> "invalid", has_error |-> FALSE, has_result |-> FALSE, result |-> None],
     [transport |-> "ok", status |-> 500, json |-> "ok", has_error |-> FALSE, has_result |-> FALSE, result |-> None],
     [transport |-> "ok", status |-> 200, json |-> "invalid", has_error |-> FALSE, has_result |-> FALSE, result |-> None],
     [transport |-> "ok", status |-> 200, json |-> "ok", has_error |-> TRUE, has_result |-> FALSE, result |-> None],
     [transport |-> "ok", status |-> 200, json |-> "ok", has_error |-> FALSE, has_result |-> FALSE, result |-> None],
     [transport |-> "ok", status |-> 200, json |-> "ok", has_error |-> FALSE, has_result |-> TRUE, result |-> "sigRpc"]}

TokenDecimals == {3, 6}
\* a token balance with a fractional part: 1.001
FractionalTokens == Scale + 1

\* getTokenAccountsByOwner: the status code is not looked at by the caller
TokenAccountsResponses ==
    {[transport |-> "error", json |-> "invalid", has_result |-> FALSE, count |-> 0, well_formed |-> FALSE, decimals |-> 0, raw |-> 0],
     [transport |-> "ok", json |-> "invalid", has_result |-> FALSE, count |-> 0, well_formed |-> FALSE, decimals |-> 0, raw |-> 0],
     [transport |-> "ok", json |-> "ok", has_result |-> FALSE, count |-> 0, well_formed |-> FALSE, decimals |-> 0, raw |-> 0],
     [transport |-> "ok", json |-> "ok", has_result |-> TRUE, count |-> 0, well_formed |-> FALSE, decimals |-> 0, raw |-> 0],
     [transport |-> "ok", json |-> "ok", has_result |-> TRUE, count |-> 1, well_formed |-> FALSE, decimals |-> 0, raw |-> 0]}
    \cup {[transport |-> "ok", json |-> "ok", has_result |-> TRUE, count |-> 1, well_formed |-> TRUE,
           decimals |-> d, raw |-> t * (Pow10(d) \div Scale)] :
               d \in TokenDecimals, t \in (0..MaxTokens) \cup {FractionalTokens}}

\* getTokenAccountBalance of the post-trade check
VerifyResponses ==
    {[transport |-> "error", json |-> "invalid", has_result |-> FALSE, well_formed |-> FALSE, units |-> 0],
     [transport |-> "ok", json |-> "invalid", has_result |-> FALSE, well_formed |-> FALSE, units |-> 0],
     [transport |-> "ok", json |-> "ok", has_result |-> FALSE, well_formed |-> FALSE, units |-> 0],
     [transport |-> "ok", json |-> "ok", has_result |-> TRUE, well_formed |-> FALSE, units |-> 0]}
    \cup {[transport |-> "ok", json |-> "ok", has_result |-> TRUE, well_formed |-> TRUE, units |-> t] : t \in 0..MaxTokens}

NoResponse == [transport |-> "none"]

-----------------------------------------------------------------------------
(* Pure helpers *)

\* a response whose body cannot be read: requests.post raised, or .json() did
Unreadable(resp) == resp.transport = "error" \/ resp.json = "invalid"

\* faulty variant: a failed lookup yields a sentinel instead of zero
get_sol_balance_Sentinel(resp) ==
    IF resp.transport = "ok" /\ resp.status = 200 /\ resp.json = "ok"
       /\ resp.has_result /\ resp.has_value
    THEN resp.value \div (LAMPORTS_PER_SOL \div Scale)
    ELSE 0 - 1

\* get_sol_balance: lamports / 1e9, or 0 on any failure
get_sol_balance(resp) ==
    IF resp.transport = "error" THEN 0
    ELSE IF resp.status = 200
         THEN IF resp.json = "invalid" THEN 0
              ELSE IF resp.has_result
                   THEN IF resp.has_value
                        THEN resp.value \div (LAMPORTS_PER_SOL \div Scale)
                        ELSE 0
                   ELSE 0
         ELSE 0

\* faulty variant: a transport error or a bad status ends the polling
PollOutcome_ErrorFatal(resp) ==
    IF resp.transport = "error" THEN "False"
    ELSE IF resp.status # 200 THEN "False"
    ELSE IF resp.json = "invalid" THEN "continue"
    ELSE IF resp.result = "present"
         THEN IF resp.meta = "null" THEN "continue"
              ELSE IF resp.meta = "absent" \/ resp.err = None
                   THEN "True"
                   ELSE "False"
         ELSE "continue"

\* one iteration of the poller's loop body: "True" / "False" (return), or
\* "continue" (sleep and go round again)
PollOutcome(resp) ==
    IF resp.transport = "error" THEN "continue"
    ELSE IF resp.status = 200
         THEN IF resp.json = "invalid" THEN "continue"
              ELSE IF resp.result = "present"
                   THEN IF resp.meta = "null" THEN "continue"
                        ELSE IF resp.meta = "absent" \/ resp.err = None
                             THEN "True"
                             ELSE "False"
                   ELSE "continue"
         ELSE "continue"

\* faulty variant: another slippage cap, no wrapping of the native asset
create_swap_data_Loose(quote, sender_public_key) ==
    [quoteResponse |-> quote,
     userPublicKey |-> sender_public_key,
     wrapUnwrapSOL |-> FALSE,
     useVersionedTransaction |-> TRUE,
     dynamicComputeUnitLimit |-> TRUE,
     dynamicSlippage |-> [maxBps |-> 50],
     prioritizationFeeLamports |->
         [priorityLevelWithMaxLamports |->
             [maxLamports |-> 10000000,
              priorityLevel |-> "veryHigh",
              global |-> FALSE]]]

create_swap_data(quote, sender_public_key) ==
    [quoteResponse |-> quote,
     userPublicKey |-> sender_public_key,
     wrapUnwrapSOL |-> TRUE,
     useVersionedTransaction |-> TRUE,
     dynamicComputeUnitLimit |-> TRUE,
     dynamicSlippage |-> [maxBps |-> 300],
     prioritizationFeeLamports |->
         [priorityLevelWithMaxLamports |->
             [maxLamports |-> 10000000,
              priorityLevel |-> "veryHigh",
              global |-> FALSE]]]

Abs(n) == IF n < 0 THEN 0 - n ELSE n

\* The double product amount * 10 ** decimals lies just below the exact
\* integer in magnitude.  Tabulated from IEEE-754 double arithmetic for
\* amounts of up to 1.100 in steps of 0.001: e.g. 1.001 * 10 ** 9 is
\* 1000999999.9999999, 1.001 * 10 ** 3 is 1000.9999999999999.
ProductFallsShort(amt, decimals) ==
    /\ Abs(amt) % 2 = 1
    /\ Abs(amt) >= 1001
    /\ Abs(amt) <= (CASE decimals = 3 -> 1023
                      [] decimals = 6 -> 1047
                      [] OTHER -> 1057)

\* str(int(amount * 10 ** decimals)), amount in fixed-point units; int()
\* truncates towards zero
ToSmallestUnit(amt, decimals) ==
    LET exact == amt * (Pow10(decimals) \div Scale)
    IN IF ProductFallsShort(amt, decimals)
       THEN IF amt > 0 THEN exact - 1 ELSE exact + 1
       ELSE exact

\* float(raw) / 10 ** decimals, in fixed-point units
FromSmallestUnit(raw, decimals) == raw \div (Pow10(decimals) \div Scale)


\* faulty variant: an amount above the balance is not clamped
ResolveAmount_NoClamp(amt, balance) ==
    IF amt = 0 THEN balance ELSE amt

\* sell_tokens: the amount actually traded
ResolveAmount(amt, balance) ==
    IF amt = 0 \/ amt > balance THEN balance ELSE amt

(* Requests as the network layer sees them *)

BalanceRequest(pk) ==
    [url |-> HELIUS_URL, method |-> "getBalance", params |-> <<pk>>]
StatusRequest(signature) ==
    [url |-> HELIUS_URL, method |-> "getTransaction",
     params |-> <<signature, [maxSupportedTransactionVersion |-> 0]>>]
QuoteRequest(input_mint, output_mint, amt) ==
    [url |-> JUP_QUOTE_URL, method |-> "GET",
     params |-> [inputMint |-> input_mint, outputMint |-> output_mint,
                 amount |-> amt, restrictIntermediateTokens |-> TRUE]]
SwapRequest(swap_data) ==
    [url |-> JUP_SWAP_URL, method |-> "POST", params |-> swap_data]
RelayRequest(tx) ==
    [url |-> JUP_SEND_URL, method |-> "POST", params |-> [transaction |-> tx]]
FallbackRequest(tx) ==
    [url |-> HELIUS_URL, method |-> "sendTransaction",
     params |-> <<tx, [encoding |-> "base64", skipPreflight |-> TRUE, maxRetries |-> 3]>>]
TokenAccountsRequest(pk, mint) ==
    [url |-> HELIUS_URL, method |-> "getTokenAccountsByOwner",
     params |-> <<pk, [mint |-> mint], [encoding |-> "jsonParsed"]>>]
TokenBalanceRequest(account) ==
    [url |-> HELIUS_URL, method |-> "getTokenAccountBalance", params |-> <<account>>]

-----------------------------------------------------------------------------
(* Initial state: main() is about to prompt for the private key *)

Init ==
    /\ pc = "start"
    /\ private_key = None
    /\ choice = None
    /\ tx_sig = "unset"
    /\ op = "none"
    /\ amount = 0
    /\ requested = 0
    /\ sol_balance = 0
    /\ balance_reply = NoResponse
    /\ token_account = None
    /\ token_decimals = 0
    /\ current_balance = 0
    /\ quote_response = None
    /\ swap_response = NoResponse
    /\ encoded_tx = None
    /\ send_response = NoResponse
    /\ tx_signature = None
    /\ max_retries = 0
    /\ polls = 0
    /\ lastPoll = NoResponse
    /\ confirmed = "unset"
    /\ exc = "none"
    /\ ret = "unset"
    /\ requests = <<>>
    /\ stageLog = <<>>
    /\ warned = FALSE

mainVars == <<private_key, choice, tx_sig>>
balVars == <<sol_balance, balance_reply>>
pollVars == <<max_retries, polls, lastPoll, confirmed>>
sellVars == <<token_account, token_decimals, current_balance, warned>>
txVars == <<quote_response, swap_response, encoded_tx, send_response,
           tx_signature>>

\* the except clause that an exception raised in the current operation reaches
Handler == IF op = "buy" THEN "buy_except" ELSE "sell_except"

-----------------------------------------------------------------------------
(* Exceptions *)

\* the exception a response that cannot be read raises
ReadError(resp) ==
    IF resp.transport = "error" THEN "ConnectionError" ELSE "JSONDecodeError"

\* faulty variant: only the explicitly raised Exception is caught
CaughtByExceptException_Narrow(e) == e = "Exception"

\* "except Exception" of buy_tokens and sell_tokens
CaughtByExceptException(e) ==
    e \in {"Exception", "ValueError", "KeyError", "ConnectionError",
           "HTTPError", "JSONDecodeError"}

\* "except ValueError" of main (JSONDecodeError is a ValueError)
CaughtByExceptValueError(e) == e \in {"ValueError", "JSONDecodeError"}

-----------------------------------------------------------------------------
(* main *)

\* the locals of an operation, as they are when it is called
FreshLocals ==
    /\ sol_balance' = 0
    /\ balance_reply' = NoResponse
    /\ token_account' = None
    /\ token_decimals' = 0
    /\ current_balance' = 0
    /\ quote_response' = None
    /\ swap_response' = NoResponse
    /\ encoded_tx' = None
    /\ send_response' = NoResponse
    /\ tx_signature' = None
    /\ max_retries' = 0
    /\ polls' = 0
    /\ lastPoll' = NoResponse
    /\ confirmed' = "unset"
    /\ exc' = "none"
    /\ ret' = "unset"
    /\ requests' = <<>>
    /\ stageLog' = <<>>
    /\ warned' = FALSE

opLocals == <<sol_balance, balance_reply, token_account, token_decimals, current_balance,
              quote_response, swap_response, encoded_tx, send_response,
              tx_signature, max_retries, polls, lastPoll, confirmed, exc, ret, requests,
              stageLog, warned>>

\* private_key = input(...)
MainReadKey(key) ==
    /\ pc = "start"
    /\ private_key' = key
    /\ pc' = "menu"
    /\ UNCHANGED <<choice, tx_sig, op, amount, requested>>
    /\ UNCHANGED opLocals

\* choice = input(...); "3" leaves the loop, anything but "1"/"2" continues
MainChoice(c) ==
    /\ pc = "menu"
    /\ choice' = c
    /\ pc' = IF c = "3" THEN "exited"
             ELSE IF c \notin {"1", "2"} THEN "menu"
             ELSE "read_amount"
    /\ UNCHANGED <<private_key, tx_sig, op, amount, requested>>
    /\ UNCHANGED opLocals

\* float(...) of the amount prompt
ParsesAsFloat(inp, ch) ==
    \/ inp.kind = "num"
    \/ ch = "2" /\ inp.kind = "empty"

\* the amount prompt, the conversion and the call of buy_tokens / sell_tokens;
\* tx_sig is assigned by the call before it is read (lines 333-334, 343-344),
\* so what the previous iteration left in it is dropped when the call begins
MainReadAmount(inp) ==
    /\ pc = "read_amount"
    /\ IF ParsesAsFloat(inp, choice)
       THEN /\ amount' = inp.val
            /\ requested' = inp.val
            /\ op' = IF choice = "1" THEN "buy" ELSE "sell"
            /\ pc' = IF choice = "1" THEN "buy_init" ELSE "sell_init"
            /\ tx_sig' = "unset"
       ELSE \* ValueError: "Invalid amount"
            /\ pc' = "menu"
            /\ UNCHANGED <<amount, requested, op, tx_sig>>
    /\ UNCHANGED <<private_key, choice>>
    /\ UNCHANGED opLocals

\* lines 333-337 (and 343-347): the operation has returned (or raised) into
\* main's try block; "Transaction failed" is printed if not tx_sig
MainAfterOp ==
    /\ pc = "returned"
    /\ tx_sig' = IF exc = "none" THEN ret ELSE tx_sig
    /\ pc' = IF exc = "none" \/ CaughtByExceptValueError(exc)
             THEN "menu" ELSE "crashed"
    /\ op' = "none"
    /\ amount' = 0
    /\ requested' = 0
    /\ FreshLocals
    /\ UNCHANGED <<private_key, choice>>

-----------------------------------------------------------------------------
(* buy_tokens *)

\* lines 157-159: derive the keypair from the private key
BuyInit ==
    /\ pc = "buy_init"
    /\ IF private_key = "validkey"
       THEN pc' = "buy_balance" /\ exc' = "none"
       ELSE pc' = Handler /\ exc' = "ValueError"
    /\ UNCHANGED <<mainVars, op, amount, requested, balVars, sellVars,
                   txVars, pollVars, ret, requests, stageLog>>

\* faulty variant: the comparison the wrong way round
InsufficientBalance_Swapped(balance, amt) == amt < balance

\* line 163
InsufficientBalance(balance, amt) == balance < amt

\* lines 161-164: balance check
BuyCheckBalance(resp) ==
    /\ pc = "buy_balance"
    /\ LET balance == get_sol_balance(resp) IN
       /\ sol_balance' = balance
       /\ balance_reply' = resp
       /\ IF InsufficientBalance(balance, amount)
          THEN pc' = Handler /\ exc' = "Exception"
          ELSE pc' = "buy_quote" /\ exc' = "none"
    /\ requests' = Append(requests, BalanceRequest(PublicKey))
    /\ stageLog' = Append(stageLog, "balance")
    /\ UNCHANGED <<mainVars, op, amount, requested, sellVars, txVars,
                   pollVars, ret>>

\* faulty variant: raise_for_status is left out
QuoteRaises_NoStatusCheck(resp) == Unreadable(resp)

\* get_quote: raises on a transport error, on raise_for_status, on bad JSON
QuoteRaises(resp) == Unreadable(resp) \/ resp.status >= 400
QuoteError(resp) ==
    IF resp.transport = "error" THEN "ConnectionError"
    ELSE IF resp.status >= 400 THEN "HTTPError"
    ELSE "JSONDecodeError"

\* lines 166-168: quote for native -> target
BuyQuote(resp) ==
    /\ pc = "buy_quote"
    /\ requests' = Append(requests,
           QuoteRequest(SOL_ADDRESS, ContractAddress, ToSmallestUnit(amount, 9)))
    /\ stageLog' = Append(stageLog, "quote")
    /\ IF QuoteRaises(resp)
       THEN /\ pc' = Handler /\ exc' = QuoteError(resp)
            /\ UNCHANGED quote_response
       ELSE /\ pc' = "buy_build" /\ exc' = "none"
            /\ quote_response' = resp.quote
    /\ UNCHANGED <<mainVars, op, amount, requested, balVars, sellVars,
                   swap_response, encoded_tx, send_response, tx_signature,
                   pollVars, ret>>

\* lines 170-180 (and 252-262): build the swap transaction
SwapBuild(resp, next) ==
    /\ requests' = Append(requests,
           SwapRequest(create_swap_data(quote_response, PublicKey)))
    /\ stageLog' = Append(stageLog, "build")
    /\ IF resp.transport = "error"
       THEN /\ pc' = Handler /\ exc' = "ConnectionError"
            /\ UNCHANGED swap_response
       ELSE IF resp.status # 200
       THEN /\ pc' = Handler /\ exc' = "Exception"
            /\ UNCHANGED swap_response
       ELSE /\ pc' = next /\ exc' = "none"
            /\ swap_response' = resp
    /\ UNCHANGED <<mainVars, op, amount, requested, balVars, sellVars,
                   quote_response, encoded_tx, send_response, tx_signature,
                   pollVars, ret>>

BuyBuild(resp) ==
    /\ pc = "buy_build"
    /\ SwapBuild(resp, "buy_sign")

\* lines 182-188 (and 264-270): decode, sign, re-encode
SignError(resp) ==
    IF resp.json = "invalid" THEN "JSONDecodeError"
    ELSE IF ~resp.has_tx THEN "KeyError"
    ELSE IF resp.blob # "valid" THEN "ValueError"
    ELSE "none"

SignTransaction(next) ==
    /\ stageLog' = Append(stageLog, "sign")
    /\ IF SignError(swap_response) # "none"
       THEN /\ pc' = Handler /\ exc' = SignError(swap_response)
            /\ UNCHANGED encoded_tx
       ELSE /\ pc' = next /\ exc' = "none"
            /\ LET swap_instruction == swap_response.swapTransaction
                   unsigned_tx == TransactionFromBytes(B64Decode(swap_instruction))
                   signature == SignMessage(private_key,
                                            MessageBytes(unsigned_tx.message))
                   signed_tx == Populate(unsigned_tx.message, <<signature>>)
               IN encoded_tx' = B64Encode(TransactionBytes(signed_tx))
    /\ UNCHANGED <<mainVars, op, amount, requested, balVars, sellVars,
                   quote_response, swap_response, send_response, tx_signature,
                   pollVars, ret, requests>>

BuySign ==
    /\ pc = "buy_sign"
    /\ SignTransaction("send_primary")

-----------------------------------------------------------------------------
(* send_transaction *)

\* lines 111-118: the primary relay.  An exception here reaches the except
\* clause of send_transaction, which logs it and raises it again.
SendPrimary(resp) ==
    /\ pc = "send_primary"
    /\ requests' = Append(requests, RelayRequest(encoded_tx))
    /\ stageLog' = Append(stageLog, "submit")
    /\ send_response' = IF resp.transport = "error" THEN send_response ELSE resp
    /\ IF resp.transport = "error"
       THEN /\ pc' = Handler /\ exc' = "ConnectionError"
            /\ UNCHANGED tx_signature
       ELSE IF resp.status = 200
       THEN IF resp.json = "invalid"
            THEN /\ pc' = Handler /\ exc' = "JSONDecodeError"
                 /\ UNCHANGED tx_signature
            ELSE /\ pc' = "confirm_call" /\ exc' = "none"
                 /\ tx_signature' = IF resp.has_txid THEN resp.txid ELSE None
       ELSE /\ pc' = "send_fallback" /\ exc' = "none"
            /\ UNCHANGED tx_signature
    /\ UNCHANGED <<mainVars, op, amount, requested, balVars, sellVars,
                   quote_response, swap_response, encoded_tx, pollVars, ret>>

FallbackError(resp) ==
    IF resp.transport = "error" THEN "ConnectionError"
    ELSE IF resp.status # 200 THEN "Exception"
    ELSE IF resp.json = "invalid" THEN "JSONDecodeError"
    ELSE IF resp.has_error THEN "Exception"
    ELSE IF ~resp.has_result THEN "KeyError"
    ELSE "none"

\* lines 120-148: the fallback to the RPC provider
SendFallback(resp) ==
    /\ pc = "send_fallback"
    /\ requests' = Append(requests, FallbackRequest(encoded_tx))
    /\ IF FallbackError(resp) # "none"
       THEN /\ pc' = Handler /\ exc' = FallbackError(resp)
            /\ UNCHANGED tx_signature
       ELSE /\ pc' = "confirm_call" /\ exc' = "none"
            /\ tx_signature' = resp.result
    /\ UNCHANGED <<mainVars, op, amount, requested, balVars, sellVars,
                   quote_response, swap_response, encoded_tx, send_response,
                   pollVars, ret, stageLog>>

-----------------------------------------------------------------------------
(* wait_for_transaction_confirmation *)

\* where the poller returns to
AfterConfirm == IF op = "buy" THEN "buy_result" ELSE "sell_result"

\* the call, with the default max_retries, and the set-up of the for loop
PollerStart ==
    /\ pc = "confirm_call"
    /\ max_retries' = DEFAULT_MAX_RETRIES
    /\ polls' = 0
    /\ stageLog' = Append(stageLog, "confirm")
    /\ pc' = "confirm"
    /\ UNCHANGED <<mainVars, op, amount, requested, balVars, sellVars,
                   txVars, lastPoll, confirmed, exc, ret, requests>>

\* faulty variant: the loop runs one iteration short
LoopContinues_OneShort(done, bound) == done + 1 < bound

\* the for loop has another iteration
LoopContinues(done, bound) == done < bound

\* lines 46-72: one iteration: query, then return or sleep
PollerPoll(resp) ==
    /\ pc = "confirm"
    /\ LoopContinues(polls, max_retries)
    /\ requests' = Append(requests, StatusRequest(tx_signature))
    /\ lastPoll' = resp
    /\ IF PollOutcome(resp) = "continue"
       THEN /\ polls' = polls + 1
            /\ UNCHANGED <<pc, confirmed>>
       ELSE /\ confirmed' = PollOutcome(resp)
            /\ pc' = AfterConfirm
            /\ UNCHANGED polls
    /\ UNCHANGED <<mainVars, op, amount, requested, balVars, sellVars,
                   txVars, max_retries, exc, ret, stageLog>>

\* line 74: the loop ran out
PollerExhausted ==
    /\ pc = "confirm"
    /\ ~LoopContinues(polls, max_retries)
    /\ confirmed' = "False"
    /\ pc' = AfterConfirm
    /\ UNCHANGED <<mainVars, op, amount, requested, balVars, sellVars,
                   txVars, max_retries, polls, lastPoll, exc, ret, requests,
                   stageLog>>

-----------------------------------------------------------------------------
(* buy_tokens, continued *)

\* lines 195-200
BuyResult ==
    /\ pc = "buy_result"
    /\ ret' = IF confirmed = "True" THEN tx_signature ELSE None
    /\ pc' = "returned"
    /\ UNCHANGED <<mainVars, op, amount, requested, balVars, sellVars,
                   txVars, pollVars, exc, requests, stageLog>>

\* lines 202-204 (and 304-306): the top-level except clause
ExceptClause ==
    /\ IF CaughtByExceptException(exc)
       THEN ret' = None /\ exc' = "none"
       ELSE UNCHANGED <<ret, exc>>
    /\ pc' = "returned"
    /\ UNCHANGED <<mainVars, op, amount, requested, balVars, sellVars,
                   txVars, pollVars, requests, stageLog>>

BuyExcept ==
    /\ pc = "buy_except"
    /\ ExceptClause

-----------------------------------------------------------------------------
(* sell_tokens *)

\* lines 209-211
SellInit ==
    /\ pc = "sell_init"
    /\ IF private_key = "validkey"
       THEN pc' = "sell_accounts" /\ exc' = "none"
       ELSE pc' = Handler /\ exc' = "ValueError"
    /\ UNCHANGED <<mainVars, op, amount, requested, balVars, sellVars,
                   txVars, pollVars, ret, requests, stageLog>>

TokenAccountsError(resp) ==
    IF resp.transport = "error" THEN "ConnectionError"
    ELSE IF resp.json = "invalid" THEN "JSONDecodeError"
    ELSE IF ~resp.has_result \/ resp.count = 0 THEN "Exception"
    ELSE IF ~resp.well_formed THEN "KeyError"
    ELSE "none"

\* line 238
NothingToSell(amt) == amt <= 0

\* lines 213-241: discover the token account, resolve the amount
SellTokenAccounts(resp) ==
    /\ pc = "sell_accounts"
    /\ requests' = Append(requests, TokenAccountsRequest(PublicKey, ContractAddress))
    /\ stageLog' = Append(stageLog, "accounts")
    /\ IF TokenAccountsError(resp) # "none"
       THEN /\ pc' = Handler /\ exc' = TokenAccountsError(resp)
            /\ UNCHANGED <<token_account, token_decimals, current_balance, amount>>
       ELSE LET balance == FromSmallestUnit(resp.raw, resp.decimals)
                resolved == ResolveAmount(amount, balance)
            IN /\ token_account' = "TokenAccount1"
               /\ token_decimals' = resp.decimals
               /\ current_balance' = balance
               /\ amount' = resolved
               /\ IF NothingToSell(resolved)
                  THEN pc' = Handler /\ exc' = "Exception"
                  ELSE pc' = "sell_fee" /\ exc' = "none"
    /\ UNCHANGED <<mainVars, op, requested, balVars, warned, txVars,
                   pollVars, ret>>

\* faulty variant: only an empty wallet is refused
InsufficientFeeBalance_OnlyZero(balance) == balance <= 0

\* line 245
InsufficientFeeBalance(balance) == balance < MIN_FEE_BALANCE

\* lines 243-246: enough native balance for the fees
SellCheckFee(resp) ==
    /\ pc = "sell_fee"
    /\ LET balance == get_sol_balance(resp) IN
       /\ sol_balance' = balance
       /\ balance_reply' = resp
       /\ IF InsufficientFeeBalance(balance)
          THEN pc' = Handler /\ exc' = "Exception"
          ELSE pc' = "sell_quote" /\ exc' = "none"
    /\ requests' = Append(requests, BalanceRequest(PublicKey))
    /\ stageLog' = Append(stageLog, "balance")
    /\ UNCHANGED <<mainVars, op, amount, requested, sellVars, txVars,
                   pollVars, ret>>

\* lines 248-250: quote for target -> native
SellQuote(resp) ==
    /\ pc = "sell_quote"
    /\ requests' = Append(requests,
           QuoteRequest(ContractAddress, SOL_ADDRESS,
                        ToSmallestUnit(amount, token_decimals)))
    /\ stageLog' = Append(stageLog, "quote")
    /\ IF QuoteRaises(resp)
       THEN /\ pc' = Handler /\ exc' = QuoteError(resp)
            /\ UNCHANGED quote_response
       ELSE /\ pc' = "sell_build" /\ exc' = "none"
            /\ quote_response' = resp.quote
    /\ UNCHANGED <<mainVars, op, amount, requested, balVars, sellVars,
                   swap_response, encoded_tx, send_response, tx_signature,
                   pollVars, ret>>

SellBuild(resp) ==
    /\ pc = "sell_build"
    /\ SwapBuild(resp, "sell_sign")

SellSign ==
    /\ pc = "sell_sign"
    /\ SignTransaction("send_primary")

\* lines 277-278 and 300-302
SellResult ==
    /\ pc = "sell_result"
    /\ IF confirmed = "True"
       THEN pc' = "sell_verify" /\ UNCHANGED ret
       ELSE pc' = "returned" /\ ret' = None
    /\ UNCHANGED <<mainVars, op, amount, requested, balVars, sellVars,
                   txVars, pollVars, exc, requests, stageLog>>

VerifyError(resp) ==
    IF resp.transport = "error" THEN "ConnectionError"
    ELSE IF resp.json = "invalid" THEN "JSONDecodeError"
    ELSE IF resp.has_result /\ ~resp.well_formed THEN "KeyError"
    ELSE "none"

\* lines 280-299: the post-trade balance check
SellVerify(resp) ==
    /\ pc = "sell_verify"
    /\ requests' = Append(requests, TokenBalanceRequest(token_account))
    /\ stageLog' = Append(stageLog, "verify")
    /\ IF VerifyError(resp) # "none"
       THEN /\ pc' = Handler /\ exc' = VerifyError(resp)
            /\ UNCHANGED <<ret, warned>>
       ELSE LET raw == resp.units * (Pow10(token_decimals) \div Scale)
                new_balance == FromSmallestUnit(raw, token_decimals)
            IN /\ pc' = "returned" /\ exc' = "none"
               /\ ret' = tx_signature
               /\ warned' = (resp.has_result /\ ~(new_balance < current_balance))
    /\ UNCHANGED <<mainVars, op, amount, requested, balVars, token_account,
                   token_decimals, current_balance, txVars, pollVars>>

SellExcept ==
    /\ pc = "sell_except"
    /\ ExceptClause

-----------------------------------------------------------------------------
(* The program *)

Next ==
    \/ \E key \in PrivateKeys : MainReadKey(key)
    \/ \E c \in Choices : MainChoice(c)
    \/ \E inp \in AmountInputs : MainReadAmount(inp)
    \/ MainAfterOp
    \/ BuyInit
    \/ \E resp \in BalanceResponses : BuyCheckBalance(resp)
    \/ \E resp \in QuoteResponses : BuyQuote(resp)
    \/ \E resp \in SwapResponses : BuyBuild(resp)
    \/ BuySign
    \/ \E resp \in SendResponses : SendPrimary(resp)
    \/ \E resp \in FallbackResponses : SendFallback(resp)
    \/ PollerStart
    \/ \E resp \in PollResponses : PollerPoll(resp)
    \/ PollerExhausted
    \/ BuyResult
    \/ BuyExcept
    \/ SellInit
    \/ \E resp \in TokenAccountsResponses : SellTokenAccounts(resp)
    \/ \E resp \in BalanceResponses : SellCheckFee(resp)
    \/ \E resp \in QuoteResponses : SellQuote(resp)
    \/ \E resp \in SwapResponses : SellBuild(resp)
    \/ SellSign
    \/ SellResult
    \/ \E resp \in VerifyResponses : SellVerify(resp)
    \/ SellExcept

Spec == Init /\ [][Next]_vars

\* every step the program can take is eventually taken: each blocking call
\* returns or raises, and the user answers every prompt
FairSpec == Spec /\ WF_vars(Next)

-----------------------------------------------------------------------------
(* Observations used by the properties *)

\* indices of the requests of one RPC method / endpoint
RequestsOf(method, url) ==
    {i \in DOMAIN requests : requests[i].method = method /\ requests[i].url = url}

PollCount == Cardinality(RequestsOf("getTransaction", HELIUS_URL))
QuoteRequested == RequestsOf("GET", JUP_QUOTE_URL) # {}
BuildRequested == RequestsOf("POST", JUP_SWAP_URL) # {}
RelayRequested == RequestsOf("POST", JUP_SEND_URL) # {}
FallbackRequested == RequestsOf("sendTransaction", HELIUS_URL) # {}

Entered(stage) == \E i \in DOMAIN stageLog : stageLog[i] = stage

\* the poller has returned to its caller, which has not yet acted on it
PollerReturned == pc \in {"buy_result", "sell_result"}

\* a status response that carries a result
ResultPresent(r) ==
    r.transport = "ok" /\ r.status = 200 /\ r.json = "ok" /\ r.result = "present"
\* ... whose error field is empty (err is null, or there is no meta at all)
ResultSucceeded(r) ==
    ResultPresent(r) /\ (r.meta = "absent" \/ (r.meta = "present" /\ r.err = None))
\* ... whose error field is not empty
ResultFailed(r) ==
    ResultPresent(r) /\ r.meta = "present" /\ r.err # None

-----------------------------------------------------------------------------
C2_BuyAbortsOnInsufficientBalance ==
    (op = "buy" /\ Entered("balance") /\ sol_balance < requested) =>
        /\ pc \in {"buy_except", "returned"}
        /\ pc = "returned" => ret = None
        /\ ~QuoteRequested /\ ~BuildRequested /\ ~RelayRequested
        /\ ~FallbackRequested /\ PollCount = 0
        /\ stageLog = <<"balance">>

\* a buy of more than the (non-zero) balance has returned
C2_Witness ==
    /\ op = "buy" /\ pc = "returned"
    /\ Entered("balance")
    /\ 0 < sol_balance /\ sol_balance < requested

(* C4: once sell_tokens has discovered the token balance B, the traded    *)
(* amount is B if the requested amount is zero, B if the requested amount  *)
(* exceeds B, and the requested amount if 0 < requested <= B.              *)
C4_SellResolvedAmount ==
    (op = "sell" /\ Entered("accounts") /\ token_account # None) =>
        /\ requested = 0 => amount = current_balance
        /\ requested > current_balance => amount = current_balance
        /\ (0 < requested /\ requested <= current_balance) => amount = requested

\* a request above a non-zero balance was clamped and the sell went on
C4_Witness ==
    /\ op = "sell" /\ pc = "sell_fee"
    /\ current_balance > 0
    /\ requested > current_balance
    /\ amount = current_balance

\* the primary relay attempt was made and did not return success: the
\* request raised a transport error, or the response was not a 200
PrimaryNotSuccessful ==
    /\ Entered("submit")
    /\ \/ send_response.transport = "none"
       \/ send_response.transport = "ok" /\ send_response.status # 200

(* C3: whenever the primary relay attempt of send_transaction does not     *)
(* return success (a transport error, or a non-200 response), the fallback *)
(* sendTransaction request (base64, skipPreflight, maxRetries 3) is        *)
(* issued before send_transaction fails.                                   *)
C3_FailsOnlyAfterFallback ==
    (PrimaryNotSuccessful /\ pc # "send_fallback") =>
        /\ RelayRequested
        /\ \E i \in RequestsOf("sendTransaction", HELIUS_URL) :
              requests[i].params[2] =
                  [encoding |-> "base64", skipPreflight |-> TRUE, maxRetries |-> 3]

\* the swap-build request carries the fixed parameters
BuildRequestAsSpecified(i) ==
    LET body == requests[i].params IN
    /\ body.wrapUnwrapSOL = TRUE
    /\ body.dynamicSlippage.maxBps = 300
    /\ body.prioritizationFeeLamports.priorityLevelWithMaxLamports =
           [maxLamports |-> 10000000, priorityLevel |-> "veryHigh", global |-> FALSE]

(* C5 as stated: a finished buy with a valid wallet whose balance was at   *)
(* least the requested amount has issued the swap-build request, with the  *)
(* fixed parameters.                                                       *)
C5_BuyAlwaysReachesBuild ==
    (op = "buy" /\ pc = "returned" /\ Entered("balance")
        /\ sol_balance >= requested) =>
        \E i \in RequestsOf("POST", JUP_SWAP_URL) : BuildRequestAsSpecified(i)

(* C5, amended: a buy whose balance was at least the requested amount and  *)
(* whose quote request succeeded issues the swap-build request as its next *)
(* step, and every swap-build request carries wrapUnwrapSOL = true,        *)
(* dynamicSlippage.maxBps = 300 and the fixed priority fee.                *)
C5_BuyReachesBuildAfterQuote ==
    /\ (op = "buy" /\ Entered("balance") /\ sol_balance >= requested
          /\ quote_response # None /\ pc # "buy_build") =>
          \E i \in RequestsOf("POST", JUP_SWAP_URL) : BuildRequestAsSpecified(i)
    /\ \A i \in RequestsOf("POST", JUP_SWAP_URL) : BuildRequestAsSpecified(i)
    /\ (op = "buy" /\ Entered("quote") /\ quote_response = None) => ~BuildRequested

\* a buy within the balance got its quote and issued the build request
C5_Witness ==
    /\ op = "buy" /\ pc = "buy_sign"
    /\ requested > 0 /\ sol_balance >= requested
    /\ BuildRequested

(* C6: once the poller has confirmed a sell's transaction, sell_tokens     *)
(* returns the transaction signature, whatever the post-trade balance      *)
(* query does.                                                             *)
C6_ConfirmedSellSucceeds ==
    (op = "sell" /\ confirmed = "True") =>
        /\ pc # "sell_except"
        /\ pc = "returned" => (ret = tx_signature /\ exc = "none")

(* C7: no step crashes the CLI loop: an exception raised in an operation   *)
(* is turned into the return value None, a returned operation, an invalid  *)
(* amount and an invalid choice all lead back to the menu, and the loop is *)
(* left only from the menu on choice 3.                                    *)
C7_LoopSurvivesFailures ==
    [][/\ pc' # "crashed"
       /\ pc' = "exited" => (pc = "menu" /\ choice' = "3")
       /\ pc \in {"buy_except", "sell_except"} =>
            (pc' = "returned" /\ ret' = None /\ exc' = "none")
       /\ pc = "returned" => (exc = "none" /\ pc' = "menu" /\ tx_sig' = ret)
       /\ (pc = "menu" /\ choice' \notin {"1", "2", "3"}) => pc' = "menu"
       /\ (pc = "read_amount" /\ op' = "none") => pc' = "menu"
      ]_vars

\* an operation failed and the loop is back at the menu
C7_Witness ==
    /\ pc = "menu"
    /\ tx_sig = None

\* the stages of an operation, in the order of the code
Stages(o) ==
    IF o = "buy"
    THEN <<"balance", "quote", "build", "sign", "submit", "confirm">>
    ELSE <<"accounts", "balance", "quote", "build", "sign", "submit",
           "confirm", "verify">>

IsPrefix(a, b) == Len(a) <= Len(b) /\ a = SubSeq(b, 1, Len(a))

(* C8: the stages of an operation are entered in the order quote, build,   *)
(* sign, submit, confirm, each at most once; a stage is entered only if    *)
(* the one before it succeeded, and once a stage has raised no further     *)
(* stage is entered, no further request is issued and the operation        *)
(* returns None.                                                           *)
C8_StagesInOrderOnce ==
    [][/\ IsPrefix(stageLog', Stages(op'))
       /\ Entered("build")' => quote_response' # None
       /\ Entered("sign")' =>
            (swap_response'.transport = "ok" /\ swap_response'.status = 200)
       /\ Entered("submit")' =>
            (swap_response'.json = "ok" /\ swap_response'.has_tx
                /\ swap_response'.blob = "valid")
       /\ pc \in {"buy_except", "sell_except"} =>
            /\ stageLog' = stageLog
            /\ requests' = requests
            /\ pc' = "returned"
            /\ ret' = None
      ]_vars

\* the build stage failed: nothing after it ran and None is returned
C8_Witness ==
    /\ pc = "returned"
    /\ ret = None
    /\ op = "buy"
    /\ stageLog = <<"balance", "quote", "build">>

\* sell_tokens has given up without a quote request
SellAborted ==
    /\ pc \in {"sell_except", "returned"}
    /\ pc = "returned" => ret = None
    /\ ~QuoteRequested

(* C9: sell_tokens aborts, returning None and issuing no quote request,    *)
(* when no token account was found, when the resolved amount is <= 0, and  *)
(* when the native balance obtained is below 0.002.                        *)
C9_SellAborts ==
    op = "sell" =>
        /\ (Entered("accounts") /\ token_account = None) => SellAborted
        /\ (Entered("accounts") /\ token_account # None /\ amount <= 0) => SellAborted
        /\ (Entered("balance") /\ sol_balance * 1000 < 2 * Scale) => SellAborted

\* a sell with tokens to sell stopped on a native balance of 0.001
C9_Witness ==
    /\ op = "sell" /\ pc = "returned"
    /\ Entered("balance")
    /\ amount > 0
    /\ sol_balance > 0 /\ sol_balance * 1000 < 2 * Scale
    /\ ret = None

\* a status query that failed in transit or came back with a bad status
PollErrored(r) ==
    r.transport = "error" \/ (r.transport = "ok" /\ r.status # 200)

(* C10: the poller issues at most max_retries status queries; a query that *)
(* fails in transit or with a bad status raises nothing and ends the       *)
(* polling only as the last of max_retries attempts; and every operation   *)
(* that calls the poller returns.                                          *)
C10_PollerTerminates ==
    /\ [](/\ PollCount <= max_retries
          /\ pc = "confirm" => exc = "none"
          /\ PollerReturned =>
               /\ exc = "none"
               /\ PollErrored(lastPoll) =>
                    (confirmed = "False" /\ PollCount = max_retries))
    /\ (pc = "confirm_call") ~> (pc = "returned")

\* every attempt was used up and the last one was a transport error
C10_Witness ==
    /\ PollerReturned
    /\ confirmed = "False"
    /\ lastPoll.transport = "error"
    /\ PollCount = DEFAULT_MAX_RETRIES

\* the signed transaction has been produced
Signed == Entered("sign") /\ (pc = "send_primary" \/ Entered("submit"))

(* C11: the message inside the signed transaction that is submitted is     *)
(* byte-identical to the message inside the aggregator's blob, exactly one *)
(* signature is attached, and that signature was computed by the wallet's  *)
(* key over exactly those message bytes.                                   *)
C11_SignatureCoversMessage ==
    Signed =>
        LET original == B64Decode(swap_response.swapTransaction)
            submitted == B64Decode(encoded_tx)
        IN /\ submitted.message_bytes = original.message_bytes
           /\ Len(submitted.signatures) = 1
           /\ submitted.signatures[1].signer = private_key
           /\ submitted.signatures[1].over = submitted.message_bytes

(* C12: the quote request of a buy is for the pair native -> target with   *)
(* amount equal to the requested amount times 10^9; the quote request of a *)
(* sell is for the pair target -> native with amount equal to the resolved *)
(* amount times 10^decimals, which for a sell-all is the full discovered   *)
(* raw balance.                                                            *)
C12_QuoteAmountScaled ==
    \A i \in RequestsOf("GET", JUP_QUOTE_URL) :
        LET q == requests[i].params IN
        IF op = "buy"
        THEN /\ q.inputMint = SOL_ADDRESS /\ q.outputMint = ContractAddress
             /\ q.amount = requested * (Pow10(9) \div Scale)
        ELSE /\ q.inputMint = ContractAddress /\ q.outputMint = SOL_ADDRESS
             /\ q.amount = amount * (Pow10(token_decimals) \div Scale)
             /\ requested = 0 =>
                  q.amount = current_balance * (Pow10(token_decimals) \div Scale)

\* the balance lookup failed: transport error, bad status, unreadable body,
\* no result, or a result without a value
LookupFailed(r) ==
    \/ r.transport = "error"
    \/ r.transport = "ok" /\ (r.status # 200 \/ r.json = "invalid"
                              \/ ~r.has_result \/ ~r.has_value)

(* C13: a failed balance lookup raises nothing and yields zero; a buy of a *)
(* positive amount then aborts on insufficient funds and a sell aborts on  *)
(* the fee threshold, both without a quote request.                        *)
C13_FailedLookupIsZero ==
    (Entered("balance") /\ LookupFailed(balance_reply)) =>
        /\ sol_balance = 0
        /\ (stageLog[Len(stageLog)] = "balance" /\ exc # "none") =>
              exc = "Exception"
        /\ (op = "buy" /\ requested > 0) =>
              /\ pc \in {"buy_except", "returned"}
              /\ pc = "returned" => ret = None
              /\ stageLog = <<"balance">>
              /\ ~QuoteRequested
        /\ op = "sell" =>
              /\ SellAborted
              /\ stageLog = <<"accounts", "balance">>

\* a buy of a positive amount has ended after the lookup failed in transit
C13_Witness ==
    /\ op = "buy" /\ pc = "returned"
    /\ requested > 0
    /\ Entered("balance")
    /\ balance_reply.transport = "error"
    /\ ret = None

(* C14: whenever send_transaction has returned, by the relay path or by    *)
(* the fallback path, the signature it returned is present, so the poller  *)
(* is never started with a missing signature.                              *)
C14_SignaturePresent ==
    (pc = "confirm_call" \/ Entered("confirm")) => tx_signature # None

(* C15: buy_tokens returns the transaction signature exactly when the      *)
(* submit stage returned and the poller saw a result with an empty error   *)
(* field; in every other execution it returns None.                        *)
C15_BuyReturnsSignatureIffConfirmed ==
    (op = "buy" /\ pc = "returned") =>
        IF Entered("confirm") /\ ResultSucceeded(lastPoll)
        THEN ret # None /\ ret = tx_signature
        ELSE ret = None

(* C16: buy_tokens issues no quote request for a requested amount that is  *)
(* zero or negative, whatever the balance.                                 *)
C16_NoQuoteForNonPositiveBuy ==
    (op = "buy" /\ requested <= 0) => ~QuoteRequested

====
